---- MODULE Spec2Model ----
(***************************************************************************)
(* The cleaning pipeline of universal-dataCleaner: clean_data of app.py    *)
(* (the Streamlit front end, reached through the sidebar and run_cleaning) *)
(* and clean_data of cleaner.py (the command-line variant).                *)
(*                                                                         *)
(* A table is a record [names, dtypes, rows]: names are sequences of       *)
(* one-character strings, dtypes is "num" (a numpy number dtype), "obj"    *)
(* (object) or "category" per column, rows is a sequence of rows, each a   *)
(* sequence of cells.  A cell is a record [t, n, d, s]: t = "na" (NaN or   *)
(* None), "num" (the exact rational n/d in lowest terms, standing for the  *)
(* float) or "str" (the text s).  Floating point is modelled by exact      *)
(* rational arithmetic; the text of a report step is modelled by its kind, *)
(* its column and its count (the formatted replacement value is left out). *)
(* The numeric/non-numeric class of a column survives convert_dtypes.      *)
(***************************************************************************)
EXTENDS Integers, Sequences, FiniteSets, TLC

\* Bounds of the enumerated input tables.
MaxRows == 3
MaxRows2 == 2
TallRows == 11

\* outlier_threshold the sidebar sets when "Apply outlier treatment" is off.
DefaultThreshold == 3

(***************************************************************************)
(* Exact rationals standing for the floats of pandas/numpy.                *)
(***************************************************************************)
Abs(x) == IF x < 0 THEN -x ELSE x

RECURSIVE Gcd(_, _)
Gcd(a, b) == IF b = 0 THEN a ELSE Gcd(b, a % b)

Lcm(a, b) == (a * b) \div Gcd(a, b)

Rat(n, d) == LET g == Gcd(Abs(n), d) IN [n |-> n \div g, d |-> d \div g]

RAdd(a, b) == Rat(a.n * b.d + b.n * a.d, a.d * b.d)

RSub(a, b) == Rat(a.n * b.d - b.n * a.d, a.d * b.d)

RMul(a, b) == Rat(a.n * b.n, a.d * b.d)

RDivInt(a, k) == Rat(a.n, a.d * k)

RLess(a, b) == a.n * b.d < b.n * a.d

(***************************************************************************)
(* Cells and tables.                                                       *)
(***************************************************************************)
NA == [t |-> "na", n |-> 0, d |-> 1, s |-> ""]

Num(r) == [t |-> "num", n |-> r.n, d |-> r.d, s |-> ""]

IntCell(i) == Num(Rat(i, 1))

Str(s) == [t |-> "str", n |-> 0, d |-> 1, s |-> s]

Val(c) == [n |-> c.n, d |-> c.d]

IsNull(c) == c.t = "na"

NCols(t) == Len(t.names)

NRows(t) == Len(t.rows)

\* df.empty: no rows or no columns
IsEmpty(t) == NRows(t) = 0 \/ NCols(t) = 0

Col(t, j) == [i \in 1..NRows(t) |-> t.rows[i][j]]

RECURSIVE Pick(_, _, _)
Pick(seq, S, i) ==
    IF i > Len(seq) THEN <<>>
    ELSE (IF i \in S THEN <<seq[i]>> ELSE <<>>) \o Pick(seq, S, i + 1)

\* the subsequence of seq at the positions in S, order kept
Keep(seq, S) == Pick(seq, S, 1)

NullRows(t, j) == {i \in 1..NRows(t) : IsNull(t.rows[i][j])}

\* df[col].isnull().sum()
MissingCount(t, j) == Cardinality(NullRows(t, j))

\* df[col].dropna()
DropNa(t, j) == Keep(Col(t, j), (1..NRows(t)) \ NullRows(t, j))

\* df.loc[mask, col] = value / df[col] = df[col].fillna(value) on the rows S
SetCells(t, j, S, c) ==
    [t EXCEPT !.rows = [i \in 1..NRows(t) |->
        IF i \in S THEN [t.rows[i] EXCEPT ![j] = c] ELSE t.rows[i]]]

SetDtype(t, j, ty) == [t EXCEPT !.dtypes[j] = ty]

\* np.issubdtype(df[col].dtype, np.number) / select_dtypes(include=[np.number])
IsNumeric(t, j) == t.dtypes[j] = "num"

HasDupNames(t) == \E j, k \in 1..NCols(t) : j # k /\ t.names[j] = t.names[k]

(***************************************************************************)
(* Report: the step log and the missing-value map.                         *)
(***************************************************************************)
Step(kind, col, n) == [kind |-> kind, col |-> col, n |-> n]

EmptyReport == [steps_taken |-> <<>>, missing_values |-> <<>>]

\* report['steps_taken'].append(...)
AddStep(rep, st) == [rep EXCEPT !.steps_taken = Append(@, st)]

(***************************************************************************)
(* Diagnosis standardisation (app.py only); it runs on the caller's table. *)
(***************************************************************************)
DiagnosisCap == <<"D", "i", "a", "g", "n", "o", "s", "i", "s">>

DiagnosisLow == <<"d", "i", "a", "g", "n", "o", "s", "i", "s">>

HasName(t, nm) == \E j \in 1..NCols(t) : t.names[j] = nm

NameIdx(t, nm) == CHOOSE j \in 1..NCols(t) : t.names[j] = nm

\* Series.replace(diagnosis_map): exact, case-sensitive match of the two keys
ReplaceDiagnosis(c) ==
    IF c.t = "str" /\ c.s \in {"hypertension", "high BP"}
    THEN Str("Hypertension") ELSE c

HasDiagnosis(t) == HasName(t, DiagnosisCap) \/ HasName(t, DiagnosisLow)

\* df["Diagnosis"] = ... : overwrites the column "Diagnosis" when it exists,
\* and otherwise adds a new last column "Diagnosis" built from "diagnosis"
StandardizeDiagnosis(t) ==
    IF HasName(t, DiagnosisCap)
    THEN LET j == NameIdx(t, DiagnosisCap) IN
         [t EXCEPT !.rows = [i \in 1..NRows(t) |->
             [t.rows[i] EXCEPT ![j] = ReplaceDiagnosis(@)]]]
    ELSE LET j == NameIdx(t, DiagnosisLow) IN
         [names |-> Append(t.names, DiagnosisCap),
          dtypes |-> Append(t.dtypes, t.dtypes[j]),
          rows |-> [i \in 1..NRows(t) |->
              Append(t.rows[i], ReplaceDiagnosis(t.rows[i][j]))]]

(***************************************************************************)
(* Duplicate removal and column-name cleaning.                             *)
(***************************************************************************)
\* a faulty drop_duplicates: rows that differ only in text cells count as equal
DropDuplicatesIgnoreText(t) ==
    [t EXCEPT !.rows = Keep(t.rows,
        {i \in 1..NRows(t) : \A k \in 1..(i - 1) :
            \E c \in 1..NCols(t) :
                /\ t.rows[k][c] # t.rows[i][c]
                /\ ~(t.rows[k][c].t = "str" /\ t.rows[i][c].t = "str")})]

\* df.drop_duplicates(): the first occurrence of every row is kept
DropDuplicates(t) ==
    [t EXCEPT !.rows = Keep(t.rows,
        {i \in 1..NRows(t) : \A k \in 1..(i - 1) : t.rows[k] # t.rows[i]})]

Upper == <<"A", "B", "C", "D", "E", "F", "G", "H", "I", "J", "K", "L", "M",
           "N", "O", "P", "Q", "R", "S", "T", "U", "V", "W", "X", "Y", "Z">>

Lowercase == <<"a", "b", "c", "d", "e", "f", "g", "h", "i", "j", "k", "l", "m",
               "n", "o", "p", "q", "r", "s", "t", "u", "v", "w", "x", "y", "z">>

LowerChar(c) ==
    IF \E i \in 1..Len(Upper) : Upper[i] = c
    THEN Lowercase[CHOOSE i \in 1..Len(Upper) : Upper[i] = c] ELSE c

\* str.lower()
Lower(s) == [i \in 1..Len(s) |-> LowerChar(s[i])]

RECURSIVE LStrip(_)
LStrip(s) == IF s # <<>> /\ Head(s) = " " THEN LStrip(Tail(s)) ELSE s

RECURSIVE RStrip(_)
RStrip(s) ==
    IF s # <<>> /\ s[Len(s)] = " " THEN RStrip(SubSeq(s, 1, Len(s) - 1)) ELSE s

\* str.strip()
Strip(s) == RStrip(LStrip(s))

\* str.replace(a, b) for a one-character a; b is a sequence of characters
RECURSIVE Replace(_, _, _)
Replace(s, a, b) ==
    IF s = <<>> THEN <<>>
    ELSE (IF Head(s) = a THEN b ELSE <<Head(s)>>) \o Replace(Tail(s), a, b)

\* col.strip().lower().replace(" ", "_").replace("-", "_").replace("?", "")
CleanName(col) ==
    Replace(Replace(Replace(Lower(Strip(col)), " ", <<"_">>), "-", <<"_">>),
            "?", <<>>)

\* df.columns = [...]
CleanColumnNames(t) ==
    [t EXCEPT !.names = [j \in 1..NCols(t) |-> CleanName(t.names[j])]]

(***************************************************************************)
(* Column statistics over the non-missing values of a numeric column.      *)
(***************************************************************************)
RECURSIVE SumR(_)
SumR(vs) ==
    IF vs = <<>> THEN Rat(0, 1) ELSE RAdd(Val(Head(vs)), SumR(Tail(vs)))

\* df[col].mean(); vs is not empty
Mean(vs) == RDivInt(SumR(vs), Len(vs))

RECURSIVE Insert(_, _)
Insert(x, s) ==
    IF s = <<>> THEN <<x>>
    ELSE IF RLess(x, Head(s)) THEN <<x>> \o s
    ELSE <<Head(s)>> \o Insert(x, Tail(s))

RECURSIVE Sort(_)
Sort(vs) == IF vs = <<>> THEN <<>> ELSE Insert(Val(Head(vs)), Sort(Tail(vs)))

\* a faulty median: the largest value
MedianAsMax(vs) == Sort(vs)[Len(vs)]

\* df[col].median(); vs is not empty
Median(vs) ==
    LET s == Sort(vs)
        k == Len(s)
    IN IF k % 2 = 1 THEN s[(k + 1) \div 2]
       ELSE RDivInt(RAdd(s[k \div 2], s[k \div 2 + 1]), 2)

\* Series.quantile(q) with q = qn/qd, linear interpolation; s sorted, not empty
Quantile(s, qn, qd) ==
    LET h == (Len(s) - 1) * qn
        lo == h \div qd
        fr == h % qd
    IN IF fr = 0 THEN s[lo + 1]
       ELSE RAdd(s[lo + 1], RMul(RSub(s[lo + 2], s[lo + 1]), Rat(fr, qd)))

RECURSIVE LcmDen(_)
LcmDen(vs) == IF vs = <<>> THEN 1 ELSE Lcm(Head(vs).d, LcmDen(Tail(vs)))

Scaled(c, D) == c.n * (D \div c.d)

RECURSIVE SumScaled(_, _)
SumScaled(vs, D) ==
    IF vs = <<>> THEN 0 ELSE Scaled(Head(vs), D) + SumScaled(Tail(vs), D)

RECURSIVE SumSquares(_, _)
SumSquares(vs, D) ==
    IF vs = <<>> THEN 0
    ELSE Scaled(Head(vs), D) * Scaled(Head(vs), D) + SumSquares(Tail(vs), D)

\* np.abs(stats.zscore(vs))[c] > T for a value c measured against the values
\* vs (population standard deviation, ddof = 0), T = T.n / T.d:
\*   |c - mean| / std > T  <=>  T.d^2 (k c - S)^2 > T.n^2 (k Q - S^2)
\* with k values, sum S and sum of squares Q.  A zero deviation makes the
\* z-score NaN and the comparison false, as here (0 > 0).
ZExceeds(c, vs, T) ==
    LET D == Lcm(LcmDen(vs), c.d)
        k == Len(vs)
        S == SumScaled(vs, D)
        Q == SumSquares(vs, D)
        dev == k * Scaled(c, D) - S
    IN T.d * T.d * dev * dev > T.n * T.n * (k * Q - S * S)

\* (df[col] < Q1 - 1.5 * IQR) | (df[col] > Q3 + 1.5 * IQR)
IqrExceeds(c, vs) ==
    LET s == Sort(vs)
        Q1 == Quantile(s, 1, 4)
        Q3 == Quantile(s, 3, 4)
        W == RMul(Rat(3, 2), RSub(Q3, Q1))
    IN RLess(Val(c), RSub(Q1, W)) \/ RLess(RAdd(Q3, W), Val(c))

(***************************************************************************)
(* Outlier treatment.                                                      *)
(***************************************************************************)
\* the rows of column j the method flags; missing cells are never flagged
Flagged(t, j, method, T) ==
    LET vs == DropNa(t, j) IN
    {i \in 1..NRows(t) :
        /\ ~IsNull(t.rows[i][j])
        /\ CASE method = "zscore" -> ZExceeds(t.rows[i][j], vs, T)
             [] method = "iqr" -> IqrExceeds(t.rows[i][j], vs)
             [] OTHER -> FALSE}

\* app.py: df[col].median() if outlier_replacement == "median" else df[col].mean()
ReplacementValue(vs, repl) == IF repl = "median" THEN Median(vs) ELSE Mean(vs)

\* cleaner.py: "median", "mean", and the median for anything else
ReplacementValueCleaner(vs, repl) ==
    IF repl = "mean" THEN Mean(vs) ELSE Median(vs)

\* the loop over the numeric columns, in column order; app is TRUE for app.py
RECURSIVE OutlierLoop(_, _, _, _, _)
OutlierLoop(t, steps, j, a, app) ==
    IF j > NCols(t) THEN [t |-> t, steps |-> steps]
    ELSE IF ~IsNumeric(t, j) THEN OutlierLoop(t, steps, j + 1, a, app)
    ELSE LET out == Flagged(t, j, a.outlier_method, a.outlier_threshold) IN
         IF out = {} THEN OutlierLoop(t, steps, j + 1, a, app)
         ELSE LET vs == DropNa(t, j)
                  r == IF app THEN ReplacementValue(vs, a.outlier_replacement)
                       ELSE ReplacementValueCleaner(vs, a.outlier_replacement)
              IN OutlierLoop(SetCells(t, j, out, Num(r)),
                             Append(steps, Step("Capped outliers", t.names[j],
                                                Cardinality(out))),
                             j + 1, a, app)

\* df[col].notnull() & (z_scores > outlier_threshold): z_scores is computed on
\* df[col].dropna(), so with a missing cell in the column the two operands
\* differ in length.  Where stats.zscore hands back the Series the operands are
\* aligned on the index; where it hands back an ndarray the & raises.
MaskLengthsDiffer(t, a) ==
    /\ a.outlier_method = "zscore"
    /\ \E j \in 1..NCols(t) :
          /\ IsNumeric(t, j)
          /\ MissingCount(t, j) > 0
          /\ Flagged(t, j, "zscore", a.outlier_threshold) # {}

(***************************************************************************)
(* Missing-value handling.                                                 *)
(***************************************************************************)
Act(kind, n) == [kind |-> kind, n |-> n]

Entry(col, acts) == [col |-> col, actions |-> acts]

HasEntry(nr, col) == \E k \in 1..Len(nr) : nr[k].col = col

\* null_report.get(col, ''): the empty text when col has no entry
GetEntry(nr, col) ==
    IF HasEntry(nr, col)
    THEN nr[CHOOSE k \in 1..Len(nr) : nr[k].col = col].actions
    ELSE <<Act("", 0)>>

\* null_report[col] = ...
PutEntry(nr, col, acts) ==
    IF HasEntry(nr, col)
    THEN [k \in 1..Len(nr) |->
             IF nr[k].col = col THEN Entry(col, acts) ELSE nr[k]]
    ELSE Append(nr, Entry(col, acts))

\* a faulty dropna: nothing is dropped
DropNaRowsNone(t, j) == t

\* df.dropna(subset=[col])
DropNaRows(t, j) ==
    [t EXCEPT !.rows = Keep(t.rows, (1..NRows(t)) \ NullRows(t, j))]

\* a faulty fillna: the rows that should be filled are dropped
FillNaDropsRows(t, j, c) == DropNaRows(t, j)

\* a faulty fillna: nothing is filled
FillNaSkips(t, j, c) == t

\* df[col] = df[col].fillna(value); filling a number column with text makes
\* it an object column
FillNa(t, j, c) ==
    LET u == SetCells(t, j, NullRows(t, j), c) IN
    IF c.t = "str" /\ NullRows(t, j) # {} /\ t.dtypes[j] = "num"
    THEN SetDtype(u, j, "obj") ELSE u

MaxOf(S) == CHOOSE m \in S : \A k \in S : k <= m

MinOf(S) == CHOOSE m \in S : \A k \in S : m <= k

\* fillna(method="ffill"): the nearest preceding non-missing value
FFill(t, j) ==
    [t EXCEPT !.rows = [i \in 1..NRows(t) |->
        LET P == {k \in 1..(i - 1) : ~IsNull(t.rows[k][j])} IN
        IF IsNull(t.rows[i][j]) /\ P # {}
        THEN [t.rows[i] EXCEPT ![j] = t.rows[MaxOf(P)][j]] ELSE t.rows[i]]]

\* fillna(method="bfill"): the nearest following non-missing value
BFill(t, j) ==
    [t EXCEPT !.rows = [i \in 1..NRows(t) |->
        LET P == {k \in (i + 1)..NRows(t) : ~IsNull(t.rows[k][j])} IN
        IF IsNull(t.rows[i][j]) /\ P # {}
        THEN [t.rows[i] EXCEPT ![j] = t.rows[MinOf(P)][j]] ELSE t.rows[i]]]

\* the texts of the model in sorted (code point) order, as Series.mode sorts
TextOrder == <<"Alice", "Bob", "Hypertension", "MISSING", "Unknown", "alice",
               "high BP", "hypertension">>

Rank(c) ==
    IF \E i \in 1..Len(TextOrder) : TextOrder[i] = c.s
    THEN CHOOSE i \in 1..Len(TextOrder) : TextOrder[i] = c.s ELSE 0

\* df[col].mode(): the most frequent non-missing values, sorted
Modes(vs) ==
    LET cnt(c) == Cardinality({i \in 1..Len(vs) : vs[i] = c}) IN
    {vs[i] : i \in {k \in 1..Len(vs) :
                      \A m \in 1..Len(vs) : cnt(vs[m]) <= cnt(vs[k])}}

\* modes.iloc[0]
FirstMode(vs) ==
    CHOOSE c \in Modes(vs) : \A e \in Modes(vs) : Rank(c) <= Rank(e)

\* one column with a missing value under app.py's strategy branches
StrategyApp(t, nr, j, a) ==
    LET col == t.names[j]
        k == MissingCount(t, j)
        vs == DropNa(t, j)
        fs == a.fill_strategy
    IN CASE fs = "delete" ->
              [t |-> DropNaRows(t, j),
               nr |-> PutEntry(nr, col, <<Act("Deleted missing values", k)>>)]
         [] fs = "zero_missing" ->
              IF IsNumeric(t, j)
              THEN [t |-> FillNa(t, j, IntCell(0)),
                    nr |-> PutEntry(nr, col, <<Act("Filled missing with 0", k)>>)]
              ELSE [t |-> FillNa(t, j, Str("MISSING")),
                    nr |-> PutEntry(nr, col,
                                    <<Act("Filled missing with 'MISSING'", k)>>)]
         [] fs = "mean_or_mode" ->
              IF IsNumeric(t, j)
              THEN [t |-> IF vs = <<>> THEN t
                          ELSE FillNa(t, j,
                                 Num(ReplacementValue(vs, a.outlier_replacement))),
                    nr |-> PutEntry(nr, col,
                             <<Act("Filled missing with " \o a.outlier_replacement,
                                   k)>>)]
              ELSE [t |-> FillNa(t, j, IF vs = <<>> THEN Str("Unknown")
                                       ELSE FirstMode(vs)),
                    nr |-> PutEntry(nr, col, <<Act("Filled missing with mode", k)>>)]
         [] fs = "forward_fill" ->
              [t |-> FFill(t, j),
               nr |-> PutEntry(nr, col, <<Act("Forward-filled missing values", k)>>)]
         [] fs = "backward_fill" ->
              [t |-> BFill(t, j),
               nr |-> PutEntry(nr, col, <<Act("Backward-filled missing values", k)>>)]
         [] OTHER -> [t |-> t, nr |-> nr]

\* the fallback for the columns named in categorical_cols
CategoricalFallback(t, nr, j, a) ==
    LET col == t.names[j] IN
    IF col \in a.categorical_cols /\ MissingCount(t, j) > 0
    THEN [t |-> FillNa(t, j, Str("Unknown")),
          nr |-> PutEntry(nr, col,
                   Append(GetEntry(nr, col),
                          Act("Filled remaining missing with 'Unknown'",
                              MissingCount(t, j))))]
    ELSE [t |-> t, nr |-> nr]

\* df[col].mode().iloc[0] of cleaner.py raises on a column with no value
ModeRaises(t, j, a) ==
    /\ a.fill_strategy = "mean_or_mode"
    /\ ~IsNumeric(t, j)
    /\ DropNa(t, j) = <<>>

\* one column with a missing value under cleaner.py's strategy branches
StrategyCleaner(t, nr, j, a) ==
    LET col == t.names[j]
        k == MissingCount(t, j)
        vs == DropNa(t, j)
        fs == a.fill_strategy
    IN CASE fs = "delete" ->
              [t |-> DropNaRows(t, j),
               nr |-> PutEntry(nr, col, <<Act("Deleted missing values", k)>>)]
         [] fs = "zero_missing" /\ IsNumeric(t, j) ->
              [t |-> FillNa(t, j, IntCell(0)),
               nr |-> PutEntry(nr, col, <<Act("Filled missing with 0", k)>>)]
         [] fs = "mean_or_mode" /\ IsNumeric(t, j) ->
              [t |-> IF vs = <<>> THEN t ELSE FillNa(t, j, Num(Mean(vs))),
               nr |-> PutEntry(nr, col, <<Act("Filled missing with mean", k)>>)]
         [] fs = "mean_or_mode" /\ ~IsNumeric(t, j) ->
              [t |-> FillNa(t, j, FirstMode(vs)),
               nr |-> PutEntry(nr, col, <<Act("Filled missing with mode", k)>>)]
         [] OTHER ->
              [t |-> FillNa(t, j, Str("MISSING")),
               nr |-> PutEntry(nr, col,
                               <<Act("Filled missing with 'MISSING'", k)>>)]

\* for col in df.columns: ... ; app is TRUE for app.py
RECURSIVE MissingLoop(_, _, _, _, _)
MissingLoop(t, nr, j, a, app) ==
    IF j > NCols(t) THEN [t |-> t, nr |-> nr, raised |-> FALSE]
    ELSE IF MissingCount(t, j) = 0 THEN MissingLoop(t, nr, j + 1, a, app)
    ELSE IF app
    THEN LET s == StrategyApp(t, nr, j, a)
             c == CategoricalFallback(s.t, s.nr, j, a)
         IN MissingLoop(c.t, c.nr, j + 1, a, app)
    ELSE IF ModeRaises(t, j, a) THEN [t |-> t, nr |-> nr, raised |-> TRUE]
    ELSE LET s == StrategyCleaner(t, nr, j, a)
         IN MissingLoop(s.t, s.nr, j + 1, a, app)

(***************************************************************************)
(* Type optimisation: the values are kept.                                 *)
(***************************************************************************)
\* df[col] = df[col].astype("category") for the declared columns present
AsCategory(t, cats) ==
    [t EXCEPT !.dtypes = [j \in 1..NCols(t) |->
        IF t.names[j] \in cats THEN "category" ELSE t.dtypes[j]]]

(***************************************************************************)
(* The inputs: the caller's table and the configuration.                   *)
(***************************************************************************)
NameName == <<"N", "a", "m", "e", " ">>

NameScore == <<"S", "c", "o", "r", "e", "?">>

NameAge == <<"a", "g", "e">>

Table(names, dtypes, rows) == [names |-> names, dtypes |-> dtypes, rows |-> rows]

\* the sequences over S of length lo..hi
SeqsOf(S, lo, hi) == UNION {[1..k -> S] : k \in lo..hi}

NumCells == {NA, IntCell(0), IntCell(1), IntCell(9)}

TextCells == {NA, Str("Alice"), Str("alice")}

DiagnosisCells == {Str("hypertension"), Str("Hypertension"), Str("high BP")}

\* one number column, the empty table included
ScoreTables ==
    {Table(<<NameScore>>, <<"num">>, rs) :
        rs \in SeqsOf({<<c>> : c \in NumCells}, 0, MaxRows)}

\* one number column holding the four cells once each, in every order
DistinctScoreTables ==
    {Table(<<NameScore>>, <<"num">>, rs) :
        rs \in {f \in [1..Cardinality(NumCells) -> {<<c>> : c \in NumCells}] :
                   \A i, k \in 1..Cardinality(NumCells) : i # k => f[i] # f[k]}}

\* one text column
NameTables ==
    {Table(<<NameName>>, <<"obj">>, rs) :
        rs \in SeqsOf({<<c>> : c \in TextCells}, 1, MaxRows)}

\* a text column and a number column
NameScoreTables ==
    {Table(<<NameName, NameScore>>, <<"obj", "num">>, rs) :
        rs \in SeqsOf({<<c, v>> : c \in {NA, Str("Alice")},
                                  v \in {NA, IntCell(0), IntCell(1)}},
                      1, MaxRows2)}

\* a diagnosis column under either spelling of its name
DiagnosisTables ==
    {Table(<<nm>>, <<"obj">>, rs) :
        nm \in {DiagnosisCap, DiagnosisLow},
        rs \in SeqsOf({<<c>> : c \in DiagnosisCells}, 1, MaxRows2)}

\* a number column 0, 1, ..., TallRows - 2 and 100
TallTable ==
    Table(<<NameAge>>, <<"num">>,
          [i \in 1..TallRows |->
              <<IntCell(IF i = TallRows THEN 100 ELSE i - 1)>>])

\* the table of the end-to-end scenario
AliceTable ==
    Table(<<NameName, NameScore>>, <<"obj", "num">>,
          << <<Str("Alice"), IntCell(10)>>, <<Str("alice"), IntCell(10)>>,
             <<Str("Bob"), NA>> >>)

InputTables ==
    ScoreTables \cup DistinctScoreTables \cup NameTables \cup NameScoreTables \cup DiagnosisTables
        \cup {TallTable, AliceTable}

FillStrategies ==
    {"delete", "zero_missing", "mean_or_mode", "forward_fill", "backward_fill"}

\* a value that is none of the recognized strategies / methods
UnknownChoice == "interpolate"

OutlierMethods == {"zscore", "iqr"}

Thresholds == {Rat(1, 2), Rat(1, 1), Rat(DefaultThreshold, 1)}

Replacements == {"median", "mean"}

\* what the sidebar holds when "Apply outlier treatment" is off
OutlierOff ==
    [apply_outliers |-> FALSE, outlier_method |-> "zscore",
     outlier_threshold |-> Rat(DefaultThreshold, 1),
     outlier_replacement |-> "median"]

OutlierOn(m, T, r) ==
    [apply_outliers |-> TRUE, outlier_method |-> m, outlier_threshold |-> T,
     outlier_replacement |-> r]

\* the outlier part of a configuration; the threshold matters to zscore only
OutlierConfigs(app) ==
    {OutlierOff}
      \cup {OutlierOn("zscore", T, r) : T \in Thresholds, r \in Replacements}
      \cup (IF app THEN {OutlierOn("iqr", Rat(DefaultThreshold, 1), r) :
                            r \in Replacements}
                          \cup {OutlierOn(UnknownChoice,
                                          Rat(DefaultThreshold, 1), "median")}
            ELSE {})

\* categorical_cols: none, the columns by the names of the table the caller
\* holds, or the columns by their cleaned names
CategoricalChoices(t, app) ==
    IF app
    THEN {{}, {t.names[j] : j \in 1..NCols(t)},
          {CleanName(t.names[j]) : j \in 1..NCols(t)}}
    ELSE {{}}

Config(fs, o, cats) ==
    [fill_strategy |-> fs, apply_outliers |-> o.apply_outliers,
     outlier_method |-> o.outlier_method,
     outlier_threshold |-> o.outlier_threshold,
     outlier_replacement |-> o.outlier_replacement, categorical_cols |-> cats]

Configs(t, app) ==
    {Config(fs, o, cats) :
        fs \in FillStrategies \cup {UnknownChoice},
        o \in OutlierConfigs(app),
        cats \in CategoricalChoices(t, app)}

(***************************************************************************)
(* The state.                                                              *)
(***************************************************************************)
VARIABLES
    impl,     \* "app" (app.py) or "cleaner" (cleaner.py)
    cfg,      \* the configuration the user chose
    args,     \* the arguments clean_data runs with
    caller,   \* the table object the caller holds and passes in
    given,    \* the value of that table when it was passed in
    df,       \* clean_data's local df
    cleaned,  \* the table entering the outlier stage
    pre,      \* the table entering the missing-value stage
    report,   \* clean_data's report
    first,    \* the report of the first run, kept by the caller
    run,      \* 1 for the first call, 2 for the call on its result
    pc        \* the stage clean_data is about to execute

vars ==
    <<impl, cfg, args, caller, given, df, cleaned, pre, report, first, run, pc>>

NoTable == Table(<<>>, <<>>, <<>>)

IsApp == impl = "app"

Init ==
    /\ impl \in {"app", "cleaner"}
    /\ caller \in InputTables
    /\ cfg \in Configs(caller, impl = "app")
    /\ args = cfg
    /\ given = caller
    /\ df = caller
    /\ cleaned = NoTable
    /\ pre = NoTable
    /\ report = EmptyReport
    /\ first = EmptyReport
    /\ run = 1
    /\ pc = "start"

\* the sidebar of app.py: with the box unticked the method, the replacement
\* and the threshold are set to zscore, median and 3.0, and clean_data, which
\* has no apply_outliers parameter, is called with them
SidebarArgs(c) ==
    IF c.apply_outliers THEN c
    ELSE [c EXCEPT !.outlier_method = "zscore",
                   !.outlier_replacement = "median",
                   !.outlier_threshold = Rat(DefaultThreshold, 1)]

\* where clean_data goes first: app.py raises on an empty table and then
\* standardizes the diagnosis column, cleaner.py starts with the duplicates
FirstStage(app, t) ==
    IF app THEN (IF IsEmpty(t) THEN "raised" ELSE "diagnosis") ELSE "dedup"

\* run_cleaning(df, ...) of app.py / clean_data(df, ...) of cleaner.py
RunCleaning ==
    /\ pc = "start"
    /\ args' = IF IsApp THEN SidebarArgs(cfg) ELSE cfg
    /\ report' = EmptyReport
    /\ pc' = FirstStage(IsApp, caller)
    /\ UNCHANGED <<impl, cfg, caller, given, df, cleaned, pre, first, run>>

\* the caller runs clean_data again, same configuration, on the table returned
RunAgain ==
    /\ pc = "done"
    /\ run = 1
    /\ run' = 2
    /\ caller' = df
    /\ given' = df
    /\ first' = report
    /\ report' = EmptyReport
    /\ cleaned' = NoTable
    /\ pre' = NoTable
    /\ pc' = FirstStage(IsApp, df)
    /\ UNCHANGED <<impl, cfg, args, df>>

\* app.py lines 37-41: df is still the caller's object here
Diagnosis ==
    /\ pc = "diagnosis"
    /\ IF HasDiagnosis(df)
       THEN /\ df' = StandardizeDiagnosis(df)
            /\ caller' = df'
            /\ report' = AddStep(report,
                                 Step("Standardized diagnosis values", <<>>, 0))
       ELSE UNCHANGED <<df, caller, report>>
    /\ pc' = "dedup"
    /\ UNCHANGED <<impl, cfg, args, given, cleaned, pre, first, run>>

\* df = df.drop_duplicates() and its step
RemoveDuplicates ==
    /\ pc = "dedup"
    /\ df' = DropDuplicates(df)
    /\ report' = AddStep(report,
                         Step("Removed duplicate rows", <<>>,
                              NRows(df) - NRows(df')))
    /\ pc' = "rename"
    /\ UNCHANGED <<impl, cfg, args, caller, given, cleaned, pre, first, run>>

\* df.columns = [...] and its step
CleanColumns ==
    /\ pc = "rename"
    /\ df' = CleanColumnNames(df)
    /\ cleaned' = df'
    /\ report' = AddStep(report, Step("Column names cleaned", <<>>, 0))
    /\ pc' = "outlier"
    /\ UNCHANGED <<impl, cfg, args, caller, given, pre, first, run>>

\* app.py lines 54-70 (always) / cleaner.py lines 39-52 (if apply_outliers)
OutlierTreatment ==
    /\ pc = "outlier"
    /\ IF ~IsApp /\ ~args.apply_outliers
       THEN /\ pc' = "missing"
            /\ pre' = df
            /\ UNCHANGED <<df, report>>
       ELSE \E aligned \in (IF MaskLengthsDiffer(df, args)
                            THEN BOOLEAN ELSE {TRUE}) :
              IF aligned
              THEN LET r == OutlierLoop(df, report.steps_taken, 1, args, IsApp)
                   IN /\ df' = r.t
                      /\ pre' = r.t
                      /\ report' = [report EXCEPT !.steps_taken = r.steps]
                      /\ pc' = "missing"
              ELSE /\ pc' = "raised"
                   /\ UNCHANGED <<df, pre, report>>
    /\ UNCHANGED <<impl, cfg, args, caller, given, cleaned, first, run>>

\* the loop over the columns, report['missing_values'] and its step; a
\* column name held by two columns makes df[col] a frame and the test
\* missing_count == 0 raise
MissingValues ==
    /\ pc = "missing"
    /\ IF HasDupNames(df)
       THEN /\ pc' = "raised"
            /\ UNCHANGED <<df, report>>
       ELSE LET r == MissingLoop(df, <<>>, 1, args, IsApp) IN
            IF r.raised
            THEN /\ pc' = "raised"
                 /\ UNCHANGED <<df, report>>
            ELSE /\ df' = r.t
                 /\ report' = AddStep([report EXCEPT !.missing_values = r.nr],
                                      Step("Missing values handled", <<>>,
                                           Len(r.nr)))
                 /\ pc' = "optimize"
    /\ UNCHANGED <<impl, cfg, args, caller, given, cleaned, pre, first, run>>

\* astype("category") (app.py), convert_dtypes() and the last step
OptimizeTypes ==
    /\ pc = "optimize"
    /\ df' = IF IsApp THEN AsCategory(df, args.categorical_cols) ELSE df
    /\ report' = AddStep(report, Step("Data types optimized", <<>>, 0))
    /\ pc' = "done"
    /\ UNCHANGED <<impl, cfg, args, caller, given, cleaned, pre, first, run>>

Next ==
    \/ RunCleaning
    \/ RunAgain
    \/ Diagnosis
    \/ RemoveDuplicates
    \/ CleanColumns
    \/ OutlierTreatment
    \/ MissingValues
    \/ OptimizeTypes

Spec == Init /\ [][Next]_vars

(***************************************************************************)
(* What the claims read off the state.                                     *)
(***************************************************************************)
Returned == pc = "done"

StepsOfKind(rep, kind) ==
    {i \in 1..Len(rep.steps_taken) : rep.steps_taken[i].kind = kind}

\* the n of the "Removed <n> duplicate rows" step
DupsRemoved(rep) ==
    rep.steps_taken[CHOOSE i \in StepsOfKind(rep, "Removed duplicate rows") :
                        TRUE].n

MissingCols(t) == {j \in 1..NCols(t) : MissingCount(t, j) > 0}

Keys(nr) == {nr[k].col : k \in 1..Len(nr)}

PastOutliers == pc \in {"missing", "optimize", "done"}

PastMissing == pc \in {"optimize", "done"}

(***************************************************************************)
(* C1: row counts.                                                         *)
(***************************************************************************)
\* C1 as stated: for a non-empty input table, the returned table has at most
\* as many rows as the input under Delete, and exactly as many rows as the
\* input under every other fill strategy.
C1_Original ==
    (Returned /\ ~IsEmpty(given) /\ args.fill_strategy \in FillStrategies) =>
        IF args.fill_strategy = "delete" THEN NRows(df) <= NRows(given)
        ELSE NRows(df) = NRows(given)

\* C1 as amended: whenever clean_data returns, the returned table has at most
\* as many rows as the input under Delete, and under every other fill
\* strategy exactly the input's rows less the duplicate rows the report says
\* were removed.
C1_RowCount ==
    (Returned /\ args.fill_strategy \in FillStrategies) =>
        IF args.fill_strategy = "delete" THEN NRows(df) <= NRows(given)
        ELSE NRows(df) = NRows(given) - DupsRemoved(report)

\* a fill strategy filled a column of a table that lost a duplicate row
C1_Witness ==
    /\ Returned
    /\ run = 1
    /\ args.fill_strategy \in FillStrategies \ {"delete"}
    /\ DupsRemoved(report) > 0
    /\ report.missing_values # <<>>
    /\ NRows(df) < NRows(given)

(***************************************************************************)
(* C3: the caller's table.                                                 *)
(***************************************************************************)
\* C3 as stated: clean_data never mutates the table it is given; at any point
\* of a call the caller's table has the columns, names and cells it had when
\* it was passed in.
C3_Original == caller = given

(***************************************************************************)
(* C4: the columns of the result.                                          *)
(***************************************************************************)
NormalizedDistinct(t) ==
    \A j, k \in 1..NCols(t) :
        j # k => CleanName(t.names[j]) # CleanName(t.names[k])

\* C4 as stated: for a non-empty input whose names are pairwise distinct after
\* normalization, the table clean_data works on from the renaming on (and
\* returns) has as many columns as the input, named by the normalized input
\* names in input order, pairwise distinct; a diagnosis column included.
C4_Original ==
    (/\ run = 1
     /\ pc \in {"outlier", "missing", "optimize", "done"}
     /\ ~IsEmpty(given)
     /\ NormalizedDistinct(given)) =>
        /\ NCols(df) = NCols(given)
        /\ \A j \in 1..NCols(given) : df.names[j] = CleanName(given.names[j])
        /\ ~HasDupNames(df)

(***************************************************************************)
(* C5: unrecognized enum values.                                           *)
(***************************************************************************)
\* C5 as stated: with a fill_strategy that is no recognized value and a column
\* with a missing value, or an outlier_method that is no recognized value and
\* a numeric column, clean_data does not get past that stage: it raises.
C5_Original ==
    /\ (/\ args.fill_strategy \notin FillStrategies
        /\ pre # NoTable
        /\ MissingCols(pre) # {}) => ~PastMissing
    /\ (/\ IsApp
        /\ args.outlier_method \notin OutlierMethods
        /\ cleaned # NoTable
        /\ \E j \in 1..NCols(cleaned) : IsNumeric(cleaned, j)) => ~PastOutliers

(***************************************************************************)
(* C6: apply_outliers.                                                     *)
(***************************************************************************)
\* C6 as stated: when the user's configuration has apply_outliers = FALSE, the
\* report gets no "Capped ... outliers" step and the outlier stage replaces
\* no cell.
C6_Original ==
    (~cfg.apply_outliers /\ run = 1) =>
        /\ StepsOfKind(report, "Capped outliers") = {}
        /\ PastOutliers => pre.rows = cleaned.rows

(***************************************************************************)
(* C7: the categorical fallback.                                           *)
(***************************************************************************)
\* C7 as stated, its first assertion: a column declared categorical by the
\* name the caller sees in the table it passes in has no missing cell after
\* the missing-value stage.
C7_Original ==
    (/\ IsApp
     /\ run = 1
     /\ PastMissing
     /\ args.fill_strategy \in FillStrategies) =>
        \A j \in 1..NCols(given) :
            given.names[j] \in cfg.categorical_cols => MissingCount(df, j) = 0

(***************************************************************************)
(* C10: the order of the step log.                                         *)
(***************************************************************************)
Before(rep, a, b) ==
    \A i \in StepsOfKind(rep, a), k \in StepsOfKind(rep, b) : i < k

\* C10 as stated: in the returned report the "Removed <n> duplicate rows" step
\* is first; the renaming step and the diagnosis step follow it and precede
\* every "Capped" step; those precede the one "Missing values handled" step;
\* "Data types optimized" is last.
C10_Original ==
    Returned =>
        /\ report.steps_taken[1].kind = "Removed duplicate rows"
        /\ Before(report, "Removed duplicate rows", "Column names cleaned")
        /\ Before(report, "Removed duplicate rows",
                  "Standardized diagnosis values")
        /\ Before(report, "Column names cleaned", "Capped outliers")
        /\ Before(report, "Standardized diagnosis values", "Capped outliers")
        /\ Before(report, "Capped outliers", "Missing values handled")
        /\ Cardinality(StepsOfKind(report, "Missing values handled")) = 1
        /\ report.steps_taken[Len(report.steps_taken)].kind
               = "Data types optimized"

(***************************************************************************)
(* C8: the keys of the missing-value map.                                  *)
(***************************************************************************)
PreMissingNames == {pre.names[j] : j \in MissingCols(pre)}

NoRepeatedKey(nr) ==
    \A a, b \in 1..Len(nr) : a # b => nr[a].col # nr[b].col

\* the columns with a missing cell in a row whose earlier columns are all
\* present: the columns Delete still finds a missing cell in at their turn
FirstMissingCols(t) ==
    {j \in 1..NCols(t) :
        \E i \in 1..NRows(t) :
            /\ IsNull(t.rows[i][j])
            /\ \A k \in 1..(j - 1) : ~IsNull(t.rows[i][k])}

\* C8 as stated: under every fill strategy the keys of the missing-value map
\* are exactly the columns with a missing value in the table entering the
\* missing-value stage, one entry each.
C8_Original ==
    (PastMissing /\ args.fill_strategy \in FillStrategies) =>
        /\ Keys(report.missing_values) = PreMissingNames
        /\ NoRepeatedKey(report.missing_values)

\* C8 as amended: the map has one entry per key and its keys are columns
\* that had a missing value in the table entering the stage; they are all of
\* those columns under the four filling strategies, and under Delete the
\* columns that still have a missing cell once the rows dropped for the
\* earlier columns are gone.
C8_Keys ==
    PastMissing =>
        /\ NoRepeatedKey(report.missing_values)
        /\ Keys(report.missing_values) \subseteq PreMissingNames
        /\ args.fill_strategy \in FillStrategies \ {"delete"} =>
               Keys(report.missing_values) = PreMissingNames
        /\ args.fill_strategy = "delete" =>
               Keys(report.missing_values)
                   = {pre.names[j] : j \in FirstMissingCols(pre)}

\* Delete left a column that had a missing value without an entry
C8_Witness ==
    /\ PastMissing
    /\ run = 1
    /\ args.fill_strategy = "delete"
    /\ report.missing_values # <<>>
    /\ Keys(report.missing_values) # PreMissingNames

(***************************************************************************)
(* C9: z-scores after the outlier stage.                                   *)
(***************************************************************************)
ZScoreStageRan ==
    /\ pc = "missing"
    /\ args.outlier_method = "zscore"
    /\ IsApp \/ args.apply_outliers

\* every value of the numeric columns leaving the outlier stage is within T
\* of the mean of the column entering it, in standard deviations of that
\* column, and the missing cells are the same
WithinThreshold ==
    \A j \in 1..NCols(cleaned) : IsNumeric(cleaned, j) =>
        \A i \in 1..NRows(cleaned) :
            IF IsNull(cleaned.rows[i][j]) THEN IsNull(pre.rows[i][j])
            ELSE /\ ~IsNull(pre.rows[i][j])
                 /\ ~ZExceeds(pre.rows[i][j], DropNa(cleaned, j),
                              args.outlier_threshold)

\* C9 as stated: under Z-Score with any threshold T and either replacement,
\* no value leaving the outlier stage, the replacement scalar included, has
\* an absolute z-score above T against the column's statistics before
\* replacement, and missing cells stay missing.
C9_Original == ZScoreStageRan => WithinThreshold

\* C9 as amended: the same for a threshold T >= 1, or with the mean as the
\* replacement; with T < 1 the median can itself lie more than T standard
\* deviations from the mean.
C9_ZScore ==
    (/\ ZScoreStageRan
     /\ \/ ~RLess(args.outlier_threshold, Rat(1, 1))
        \/ args.outlier_replacement = "mean") => WithinThreshold

\* the median replaced an outlier of a column that also has a missing cell
C9_Witness ==
    /\ ZScoreStageRan
    /\ run = 1
    /\ ~RLess(args.outlier_threshold, Rat(1, 1))
    /\ args.outlier_replacement = "median"
    /\ StepsOfKind(report, "Capped outliers") # {}
    /\ MissingCols(pre) # {}
    /\ pre.rows # cleaned.rows

(***************************************************************************)
(* C2: a second run on the result of the first.                            *)
(***************************************************************************)
\* C2 as stated: the second run, same configuration, on the table the first
\* run returned removes 0 duplicate rows, caps no outlier and has an empty
\* missing-value map.
C2_Original ==
    (Returned /\ run = 2) =>
        /\ DupsRemoved(report) = 0
        /\ StepsOfKind(report, "Capped outliers") = {}
        /\ report.missing_values = <<>>

\* C2 as amended: a second run that returns has an empty missing-value map
\* under Delete and ZeroOrMissing, and removes 0 duplicate rows under Delete
\* when the first run capped no outlier.
C2_SecondRun ==
    (Returned /\ run = 2) =>
        /\ args.fill_strategy \in {"delete", "zero_missing"} =>
               report.missing_values = <<>>
        /\ (/\ args.fill_strategy = "delete"
            /\ StepsOfKind(first, "Capped outliers") = {}) =>
               DupsRemoved(report) = 0

\* the first run filled missing cells with 0 / 'MISSING' and the second run
\* found none, yet removed a duplicate row the fill had made
C2_Witness ==
    /\ Returned
    /\ run = 2
    /\ args.fill_strategy = "zero_missing"
    /\ first.missing_values # <<>>
    /\ report.missing_values = <<>>
    /\ DupsRemoved(report) > 0

(***************************************************************************)
(* C11: the scenario ["Name ", "Score?"] with rows (Alice, 10), (alice, 10) *)
(* and (Bob, missing), under Delete.                                       *)
(***************************************************************************)
ScenarioRun ==
    /\ Returned
    /\ run = 1
    /\ given = AliceTable
    /\ args.fill_strategy = "delete"

ScoreKey == CleanName(NameScore)

====
